---- MODULE Spec2Model ----
(***************************************************************************)
(* A model of the ACF period finder of astrobase:                          *)
(*   periodbase/macf.py   _get_acf_peakheights, macf_period_find           *)
(*   varbase/autocorr.py  _autocorr_func3, autocorr_magseries              *)
(* and of the TRILEGAL query with its cache and lock files:                *)
(*   services/trilegal.py query_galcoords                                  *)
(*                                                                         *)
(* Array indices are 0-based as in the source; a sequence s of the model   *)
(* holds source element i at s[i+1] (see At).                              *)
(*                                                                         *)
(* Floating point values are modelled as exact fractions <<num, den>> with *)
(* den > 0; <<0, 0>> is NaN.  Every comparison with NaN is false, as in    *)
(* IEEE arithmetic.                                                        *)
(***************************************************************************)
EXTENDS Integers, Sequences, FiniteSets, TLC

VARIABLES
    pk_args,    \* arguments of the call of _get_acf_peakheights (peakres)
    pk_ret,     \* what that call returned or raised
    ac_args,    \* arguments of the call of autocorr_magseries (acfres)
    ac_ret,     \* what that call returned or raised
    pc,         \* where the current call of macf_period_find stands
    args,       \* the arguments of the current call of macf_period_find
    dicts,      \* the dict objects smoothfunckwargs can be bound to
    xacf,       \* macf_period_find's local xacf
    fit,        \* its locals fitcoeffs, fitcovar, fitbestperiod, bestperiodrms
    ret,        \* the record the current call returned, None before
    err,        \* the exception the current call raised, None before
    log,        \* the warnings the current call logged
    prev,       \* the call made before the current one: arguments and outcome
    qpc,        \* where each instance of query_galcoords stands
    qargs,      \* the arguments of each instance
    qloc,       \* the locals of each instance
    qret,       \* what each instance returned or raised
    fs,         \* the cache directory: result files and lock files
    posts       \* the number of form submissions each instance has sent

peakvars == <<pk_args, pk_ret>>

corrvars == <<ac_args, ac_ret>>

pipevars == <<pc, args, dicts, xacf, fit, ret, err, log, prev>>

queryvars == <<qpc, qargs, qloc, qret, fs, posts>>

periodvars == <<pk_args, pk_ret, ac_args, ac_ret,
                pc, args, dicts, xacf, fit, ret, err, log, prev>>

vars == <<pk_args, pk_ret, ac_args, ac_ret,
          pc, args, dicts, xacf, fit, ret, err, log, prev,
          qpc, qargs, qloc, qret, fs, posts>>

----------------------------------------------------------------------------
(* Bounds of the model *)

\* length of the ACF sequences handed to the Peak Extractor
MaxAcfLen == 8

\* the ACF samples handed to the Peak Extractor
AcfValues == {0, 1, 2}

\* longest gap-filled series handed to the Correlator on its own
MaxSeriesLen == 5

\* largest maxlags handed to the Correlator on its own
MaxLagArg == 6

\* the values of a gap-filled series (magnitudes normalised to zero)
MagValues == {-1, 0, 1}

\* length of the gap-filled series handed to macf_period_find
MaxPipeLen == 8

\* the maxlags handed to macf_period_find when it is not None
PipeMaxLags == 4

\* largest npeaks handed to the Peak Extractor
MaxPeaks == 3

\* largest searchinterval handed to the Peak Extractor
MaxOrder == 2

----------------------------------------------------------------------------
(* Values *)

\* Python's None, and an optional value that is set
None == <<>>

Some(v) == <<v>>

\* a call that has not been made or has not returned
NotCalled == [status |-> "notcalled"]

\* no call made
NoArgs == [status |-> "noargs"]

\* a call that raised the exception exc
Raised(exc) == [status |-> "raised", exc |-> exc]

NaN == <<0, 0>>

IsNaN(q) == q[2] = 0

Abs(n) == IF n < 0 THEN -n ELSE n

RECURSIVE GCD(_, _)
GCD(a, b) == IF b = 0 THEN a ELSE GCD(b, a % b)

\* the fraction n/d (d # 0) in lowest terms with a positive denominator
Frac(n, d) ==
    LET g == GCD(Abs(n), Abs(d))
    IN  IF d < 0 THEN <<(-n) \div g, (-d) \div g>> ELSE <<n \div g, d \div g>>

\* the float of the integer n
Flt(n) == <<n, 1>>

\* float division of the integers n and d (0/0 is NaN)
FDiv(n, d) == IF d = 0 THEN NaN ELSE Frac(n, d)

RGreater(p, q) == ~IsNaN(p) /\ ~IsNaN(q) /\ p[1] * q[2] > q[1] * p[2]

RLess(p, q) == ~IsNaN(p) /\ ~IsNaN(q) /\ p[1] * q[2] < q[1] * p[2]

REq(p, q) == ~IsNaN(p) /\ ~IsNaN(q) /\ p[1] * q[2] = q[1] * p[2]

RAdd(p, q) == IF IsNaN(p) \/ IsNaN(q) THEN NaN
              ELSE Frac(p[1] * q[2] + q[1] * p[2], p[2] * q[2])

RSub(p, q) == IF IsNaN(p) \/ IsNaN(q) THEN NaN
              ELSE Frac(p[1] * q[2] - q[1] * p[2], p[2] * q[2])

\* p * k for an integer k
RScale(p, k) == IF IsNaN(p) THEN NaN ELSE Frac(p[1] * k, p[2])

\* p / k for an integer k > 0
RDivInt(p, k) == IF IsNaN(p) THEN NaN ELSE Frac(p[1], p[2] * k)

\* p / 2.0
RHalf(p) == RDivInt(p, 2)

\* element i (0-based) of the array s
At(s, i) == s[i + 1]

\* numpy.arange(n)
arange(n) == [k \in 1..n |-> k - 1]

Min2(a, b) == IF a < b THEN a ELSE b

Max2(a, b) == IF a > b THEN a ELSE b

SetMax(S) == CHOOSE x \in S : \A y \in S : y <= x

SetMin(S) == CHOOSE x \in S : \A y \in S : x <= y

\* the elements of the set of integers S in increasing order
RECURSIVE SortedSeq(_)
SortedSeq(S) == IF S = {} THEN <<>>
                ELSE <<SetMin(S)>> \o SortedSeq(S \ {SetMin(S)})

\* the set of the elements of the sequence s
Range(s) == {s[k] : k \in DOMAIN s}

----------------------------------------------------------------------------
(* The dict objects smoothfunckwargs can be bound to: the default value of *)
(* the parameter, one object made when the function is defined and shared  *)
(* by every call that leaves the parameter out, and a dict of the caller.  *)
(* A dict holds the keyword arguments of _smooth_acf_savgol.               *)

EmptyDict == [windowsize |-> None, polyorder |-> None]

\* macf_period_find is not being called and has not been called
PipeIdle ==
    /\ pc = "idle"
    /\ args = NoArgs
    /\ dicts = [default |-> EmptyDict, caller |-> EmptyDict]
    /\ xacf = None
    /\ fit = None
    /\ ret = None
    /\ err = None
    /\ log = {}
    /\ prev = None

\* the instances of query_galcoords that run side by side
Procs == {1, 2}

\* the cache keys in play: the sha256 digests of two different inputparams
CacheKeys == {1, 2}

\* the locals of query_galcoords before the call
FreshLocals ==
    [timeelapsed |-> 0, attempts |-> 0, created |-> FALSE, pending |-> "none"]

\* query_galcoords is not being called and the cache directory is empty
QueryIdle ==
    /\ qpc = [p \in Procs |-> "idle"]
    /\ qargs = [p \in Procs |-> NoArgs]
    /\ qloc = [p \in Procs |-> FreshLocals]
    /\ qret = [p \in Procs |-> NotCalled]
    /\ fs = [cache |-> [k \in CacheKeys |-> None],
             lock  |-> [k \in CacheKeys |-> None]]
    /\ posts = [p \in Procs |-> 0]

----------------------------------------------------------------------------
(* scipy.signal.argrelmax / argrelmin as _get_acf_peakheights calls them:  *)
(* strict comparison with the neighbours at distance 1..order, the         *)
(* neighbour index clipped to the array (mode='clip').                      *)

Clip(i, n) == IF i < 0 THEN 0 ELSE IF i > n - 1 THEN n - 1 ELSE i

\* argrelmax with a comparison that is not strict
argrelmax_ge(acf, order) ==
    SortedSeq({i \in 0..(Len(acf) - 1) :
                 \A s \in 1..order :
                    /\ ~RLess(At(acf, i), At(acf, Clip(i + s, Len(acf))))
                    /\ ~RLess(At(acf, i), At(acf, Clip(i - s, Len(acf))))})

argrelmax(acf, order) ==
    SortedSeq({i \in 0..(Len(acf) - 1) :
                 \A s \in 1..order :
                    /\ RGreater(At(acf, i), At(acf, Clip(i + s, Len(acf))))
                    /\ RGreater(At(acf, i), At(acf, Clip(i - s, Len(acf))))})

\* argrelmin with the neighbourhood one sample too wide
argrelmin_wide(acf, order) ==
    SortedSeq({i \in 0..(Len(acf) - 1) :
                 \A s \in 1..(order + 1) :
                    /\ RLess(At(acf, i), At(acf, Clip(i + s, Len(acf))))
                    /\ RLess(At(acf, i), At(acf, Clip(i - s, Len(acf))))})

argrelmin(acf, order) ==
    SortedSeq({i \in 0..(Len(acf) - 1) :
                 \A s \in 1..order :
                    /\ RLess(At(acf, i), At(acf, Clip(i + s, Len(acf))))
                    /\ RLess(At(acf, i), At(acf, Clip(i - s, Len(acf))))})

----------------------------------------------------------------------------
(* _get_acf_peakheights *)

\* mininds[mininds < mxi][-1]: the last minimum left of mxi, None when the
\* selection is empty (the indexing then raises IndexError)
leftminind(mininds, mxi) ==
    LET sel == SelectSeq(mininds, LAMBDA m : m < mxi)
    IN  IF sel = <<>> THEN None ELSE Some(sel[Len(sel)])

\* a right bracket that falls back to a minimum on the other side
rightminind_anyside(mininds, mxi) ==
    LET sel == SelectSeq(mininds, LAMBDA m : m > mxi)
    IN  IF sel # <<>> THEN Some(sel[1])
        ELSE IF mininds # <<>> THEN Some(mininds[1])
        ELSE None

\* mininds[mininds > mxi][0]: the first minimum right of mxi, None when the
\* selection is empty (the indexing then raises IndexError)
rightminind(mininds, mxi) ==
    LET sel == SelectSeq(mininds, LAMBDA m : m > mxi)
    IN  IF sel = <<>> THEN None ELSE Some(sel[1])

\* a height measured from the left bracket alone
relpeakheight_leftonly(acf, mxi, l, r) == RSub(At(acf, mxi), At(acf, l))

\* acf[mxi] - (acf[leftminind] + acf[rightminind])/2.0
relpeakheight(acf, mxi, l, r) ==
    RSub(At(acf, mxi), RHalf(RAdd(At(acf, l), At(acf, r))))

\* a selection that keeps slot 0 on a tie
bestslot_ge(relpeakheights) ==
    IF ~RLess(At(relpeakheights, 0), At(relpeakheights, 1)) THEN 0 ELSE 1

\* the slot (0 or 1) the comparison of lines 168-175 selects
bestslot(relpeakheights) ==
    IF RGreater(At(relpeakheights, 0), At(relpeakheights, 1)) THEN 0 ELSE 1

\* maxinds[:npeaks]
firstpeaks(maxinds, npeaks) == SubSeq(maxinds, 1, Min2(npeaks, Len(maxinds)))

get_acf_peakheights(lags, acf, npeaks, searchinterval) ==
    IF searchinterval < 1
    THEN Raised("ValueError")      \* argrelmax: order must be an int >= 1
    ELSE
    LET maxinds == argrelmax(acf, searchinterval)
        mininds == argrelmin(acf, searchinterval)
        first   == firstpeaks(maxinds, npeaks)
        left(k)  == leftminind(mininds, first[k])
        right(k) == rightminind(mininds, first[k])
    IN  IF \E i \in Range(maxinds) \cup Range(mininds) : i >= Len(lags)
        THEN Raised("IndexError")  \* lags[maxinds], lags[mininds]
        ELSE IF \E k \in DOMAIN first : left(k) = None \/ right(k) = None
        THEN Raised("IndexError")  \* [-1] or [0] of an empty selection
        ELSE IF npeaks < 2
        THEN Raised("IndexError")  \* relpeakheights[1] of an array of npeaks
        ELSE
        LET relpeakheights ==
                [k \in 1..npeaks |->
                    IF k <= Len(first)
                    THEN relpeakheight(acf, first[k], left(k)[1], right(k)[1])
                    ELSE Flt(0)]
            relpeaklags ==
                [k \in 1..npeaks |->
                    IF k <= Len(first) THEN At(lags, first[k]) ELSE 0]
            peakindices ==
                [k \in 1..npeaks |-> IF k <= Len(first) THEN k - 1 ELSE 0]
            b == bestslot(relpeakheights)
        IN  [status         |-> "ok",
             maxinds        |-> maxinds,
             maxacfs        |-> [k \in DOMAIN maxinds |-> At(acf, maxinds[k])],
             maxlags        |-> [k \in DOMAIN maxinds |-> At(lags, maxinds[k])],
             mininds        |-> mininds,
             minacfs        |-> [k \in DOMAIN mininds |-> At(acf, mininds[k])],
             minlags        |-> [k \in DOMAIN mininds |-> At(lags, mininds[k])],
             relpeakheights |-> relpeakheights,
             relpeaklags    |-> relpeaklags,
             peakindices    |-> peakindices,
             bestlag        |-> At(relpeaklags, b),
             bestpeakheight |-> At(relpeakheights, b),
             bestpeakindex  |-> At(peakindices, b)]

----------------------------------------------------------------------------
(* The Peak Extractor applied to every small ACF *)

\* the sequences of length n over the set S
SeqsOfLen(S, n) == [1..n -> S]

PeakInputs ==
    [lags           : {arange(MaxAcfLen), arange(MaxAcfLen - 2)},
     acf            : {[k \in 1..MaxAcfLen |-> Flt(s[k])] :
                          s \in SeqsOfLen(AcfValues, MaxAcfLen)},
     npeaks         : 1..MaxPeaks,
     searchinterval : 0..MaxOrder]


InitPeaks ==
    /\ pk_args \in PeakInputs
    /\ pk_ret = NotCalled
    /\ ac_args = NoArgs
    /\ ac_ret = NotCalled
    /\ PipeIdle
    /\ QueryIdle

PeakCall ==
    /\ pk_ret = NotCalled
    /\ pk_ret' = get_acf_peakheights(pk_args.lags, pk_args.acf,
                                     pk_args.npeaks, pk_args.searchinterval)
    /\ UNCHANGED <<pk_args, corrvars, pipevars, queryvars>>

NextPeaks == PeakCall

SpecPeaks == InitPeaks /\ [][NextPeaks]_vars

----------------------------------------------------------------------------
(* Claims about the Peak Extractor, checked under SpecPeaks *)

PeakReturned == pk_ret.status = "ok"

MinimumBetween(r, k) ==
    \E m \in DOMAIN r.minlags :
        r.maxlags[k] < r.minlags[m] /\ r.minlags[m] < r.maxlags[k + 1]

\* no two neighbouring samples between maxima k and k+1 are equal
NoPlateauBetween(r, acf, k) ==
    \A i \in r.maxinds[k]..(r.maxinds[k + 1] - 1) :
        ~REq(At(acf, i), At(acf, i + 1))

\* C9 (as claimed): in every returned PeakSet each pair of adjacent
\* collected maxima has a collected minimum strictly between their lags.
C9_Interleaved ==
    PeakReturned =>
        \A k \in 1..(Len(pk_ret.maxinds) - 1) : MinimumBetween(pk_ret, k)

\* C9 (amended): with search interval 1, each pair of adjacent collected
\* maxima between which no two neighbouring samples are equal has a
\* collected minimum strictly between their lags.
C9_InterleavedOrder1 ==
    (PeakReturned /\ pk_args.searchinterval = 1) =>
        \A k \in 1..(Len(pk_ret.maxinds) - 1) :
            NoPlateauBetween(pk_ret, pk_args.acf, k) =>
                MinimumBetween(pk_ret, k)

\* a returned PeakSet, search interval 1, two adjacent maxima with no
\* plateau between them
C9_Witness ==
    /\ PeakReturned
    /\ pk_args.searchinterval = 1
    /\ \E k \in 1..(Len(pk_ret.maxinds) - 1) :
          NoPlateauBetween(pk_ret, pk_args.acf, k)

----------------------------------------------------------------------------
(* varbase/autocorr.py *)

RECURSIVE SumTo(_, _)
\* f[1] + ... + f[n]
SumTo(f, n) == IF n = 0 THEN 0 ELSE f[n] + SumTo(f, n - 1)

\* numpy.correlate(mags, mags, mode='full'): entry j (0-based) is the sum of
\* mags[i] * mags[i + j - (n-1)] over the i for which both exist
npcorrelate_full(mags) ==
    LET n == Len(mags)
    IN  [j1 \in 1..(2 * n - 1) |->
            LET k == (j1 - 1) - (n - 1)
                prod == [i1 \in 1..n |->
                            IF i1 + k >= 1 /\ i1 + k <= n
                            THEN mags[i1] * mags[i1 + k] ELSE 0]
            IN  SumTo(prod, n)]

\* int(result.size / 2), the index the returned half starts at
halfstart_ceil(size) == (size + 1) \div 2

halfstart(size) == size \div 2

\* _autocorr_func3: the full correlation divided by its maximum, from the
\* middle on
autocorr_func3(mags) ==
    LET full   == npcorrelate_full(mags)
        top    == SetMax(Range(full))
        result == [j \in DOMAIN full |-> FDiv(full[j], top)]
    IN  SubSeq(result, halfstart(Len(result)) + 1, Len(result))

\* Python truth of an optional integer
Truthy(opt) == opt # None /\ opt[1] # 0

\* the lags array of lines 137-140
lagsarray(maxlags, size) ==
    IF Truthy(maxlags) THEN arange(Max2(maxlags[1], 0)) ELSE arange(size)

\* a Correlator that goes on with a one-sample series of zeros when the gap
\* filling failed
autocorr_magseries_substitute(interpolated, maxlags) ==
    LET imags == IF interpolated = None THEN <<0>> ELSE interpolated[1].imags
        lags  == lagsarray(maxlags, Len(imags))
    IN  IF lags = <<>>
        THEN Raised("IndexError")
        ELSE [status  |-> "ok",
              imags   |-> imags,
              cadence |-> IF interpolated = None THEN 1
                          ELSE interpolated[1].cadence,
              lags    |-> lags,
              acf     |-> autocorr_func3(imags)]

\* autocorr_magseries with func=_autocorr_func3, from the result of
\* fill_magseries_gaps on (None when the gap filling failed)
autocorr_magseries(interpolated, maxlags) ==
    IF interpolated = None
    THEN Raised("NameError")    \* LOGERROR is not defined in autocorr.py
    ELSE
    LET imags == interpolated[1].imags
        lags  == lagsarray(maxlags, Len(imags))
    IN  IF lags = <<>>
        THEN Raised("IndexError")   \* lags[0]
        ELSE [status  |-> "ok",
              imags   |-> imags,
              cadence |-> interpolated[1].cadence,
              lags    |-> lags,
              acf     |-> autocorr_func3(imags)]

----------------------------------------------------------------------------
(* The Correlator applied to every small gap-filled series *)

SeriesUpTo(n) == UNION {SeqsOfLen(MagValues, k) : k \in 1..n}

CorrInputs ==
    [interpolated : {None} \cup
                    {Some([imags |-> s, cadence |-> 1]) :
                        s \in SeriesUpTo(MaxSeriesLen)},
     maxlags      : {None} \cup {Some(l) : l \in 0..MaxLagArg}]

InitCorr ==
    /\ ac_args \in CorrInputs
    /\ ac_ret = NotCalled
    /\ pk_args = NoArgs
    /\ pk_ret = NotCalled
    /\ PipeIdle
    /\ QueryIdle

CorrCall ==
    /\ ac_ret = NotCalled
    /\ ac_ret' = autocorr_magseries(ac_args.interpolated, ac_args.maxlags)
    /\ UNCHANGED <<ac_args, peakvars, pipevars, queryvars>>

NextCorr == CorrCall

SpecCorr == InitCorr /\ [][NextCorr]_vars

----------------------------------------------------------------------------
(* Claims about the Correlator, checked under SpecCorr *)

CorrReturned == ac_ret.status = "ok"

\* C7 (as claimed): for a maximum lag count L the lag array and the ACF
\* array returned both have length L+1, the lags being 0..L in order; when
\* L is none both have the length of the series.
C7_LengthLPlus1 ==
    CorrReturned =>
        LET n == Len(ac_ret.imags)
        IN  IF ac_args.maxlags # None
            THEN /\ ac_ret.lags = arange(ac_args.maxlags[1] + 1)
                 /\ Len(ac_ret.acf) = ac_args.maxlags[1] + 1
            ELSE /\ ac_ret.lags = arange(n)
                 /\ Len(ac_ret.acf) = n

\* a series of five samples correlated with L = 2: two lags, five ACF values
C7_Witness ==
    /\ CorrReturned
    /\ ac_args.maxlags = Some(2)
    /\ Len(ac_ret.imags) = 5
    /\ Len(ac_ret.lags) = 2
    /\ Len(ac_ret.acf) = 5

\* C8 (as claimed): for any gap-filled series the first entry of the
\* returned ACF is the zero-lag value and equals 1.0 exactly.
C8_LagZeroIsOne ==
    CorrReturned => REq(ac_ret.acf[1], Flt(1))

AllZero(s) == \A k \in DOMAIN s : s[k] = 0

\* C8 (amended): for any gap-filled series with at least one non-zero
\* sample the first entry of the returned ACF is the zero-lag value and
\* equals 1.0 exactly, and the ACF has one entry per non-negative lag of the
\* series.
C8_LagZeroIsOneNonZero ==
    (CorrReturned /\ ~AllZero(ac_ret.imags)) =>
        /\ Len(ac_ret.acf) = Len(ac_ret.imags)
        /\ REq(ac_ret.acf[1], Flt(1))
        /\ \A k \in DOMAIN ac_ret.acf : ~RGreater(ac_ret.acf[k], ac_ret.acf[1])

\* a series with a non-zero sample and a lag at which the ACF is negative
C8_Witness ==
    /\ CorrReturned
    /\ ~AllZero(ac_ret.imags)
    /\ Len(ac_ret.imags) >= 3
    /\ \E k \in DOMAIN ac_ret.acf : RLess(ac_ret.acf[k], Flt(0))

----------------------------------------------------------------------------
(* scipy.signal.savgol_filter(acf, windowsize, polyorder), mode='interp':   *)
(* sample i is the least-squares polynomial of degree polyorder through the *)
(* window centred on i, evaluated at i; the first and the last windowsize/2 *)
(* samples are evaluated on the polynomial through the first and the last   *)
(* window.  SavgolWeights[r] are the weights, times SavgolDen, of the       *)
(* window's samples in the value at position r-1 of the window.             *)

SavgolWeights(windowsize, polyorder) ==
    CASE windowsize = 3 /\ polyorder = 1 ->
            << <<5, 2, -1>>, <<2, 2, 2>>, <<-1, 2, 5>> >>
      [] windowsize = 3 /\ polyorder = 2 ->
            << <<1, 0, 0>>, <<0, 1, 0>>, <<0, 0, 1>> >>
      [] windowsize = 5 /\ polyorder = 1 ->
            << <<6, 4, 2, 0, -2>>, <<4, 3, 2, 1, 0>>, <<2, 2, 2, 2, 2>>,
               <<0, 1, 2, 3, 4>>, <<-2, 0, 2, 4, 6>> >>
      [] windowsize = 5 /\ polyorder = 2 ->
            << <<31, 9, -3, -5, 3>>, <<9, 13, 12, 6, -5>>,
               <<-3, 12, 17, 12, -3>>, <<-5, 6, 12, 13, 9>>,
               <<3, -5, -3, 9, 31>> >>

SavgolDen(windowsize, polyorder) ==
    CASE windowsize = 3 /\ polyorder = 1 -> 6
      [] windowsize = 3 /\ polyorder = 2 -> 1
      [] windowsize = 5 /\ polyorder = 1 -> 10
      [] windowsize = 5 /\ polyorder = 2 -> 35

RECURSIVE RSum(_, _)
\* f[1] + ... + f[n] of floats
RSum(f, n) == IF n = 0 THEN Flt(0) ELSE RAdd(f[n], RSum(f, n - 1))

savgol_filter(acf, windowsize, polyorder) ==
    IF windowsize % 2 # 1 \/ polyorder >= windowsize \/ windowsize > Len(acf)
    THEN Raised("ValueError")
    ELSE
    LET n == Len(acf)
        h == windowsize \div 2
        w == SavgolWeights(windowsize, polyorder)
        row(i)   == IF i < h THEN i
                    ELSE IF i > n - 1 - h THEN windowsize - 1 - (n - 1 - i)
                    ELSE h
        start(i) == IF i < h THEN 0
                    ELSE IF i > n - 1 - h THEN n - windowsize
                    ELSE i - h
        value(i) ==
            RDivInt(RSum([j \in 1..windowsize |->
                            RScale(At(acf, start(i) + j - 1),
                                   w[row(i) + 1][j])],
                         windowsize),
                    SavgolDen(windowsize, polyorder))
    IN  [status |-> "ok", smoothed |-> [i1 \in 1..n |-> value(i1 - 1)]]

\* _smooth_acf_savgol(acf, **kwargs): the keywords left out take the
\* defaults windowsize=21, polyorder=2
SavgolDefaultWindow == 21

SavgolDefaultOrder == 2

smooth_acf_savgol(acf, kwargs) ==
    savgol_filter(acf,
        IF kwargs.windowsize = None THEN SavgolDefaultWindow
                                    ELSE kwargs.windowsize[1],
        IF kwargs.polyorder = None THEN SavgolDefaultOrder
                                   ELSE kwargs.polyorder[1])

----------------------------------------------------------------------------
(* macf_period_find *)

\* smoothacf is None, an int <<v>> or a float <<v, 1>>
IsInt(x) == Len(x) = 1

\* smoothacf and isinstance(smoothacf, int) and smoothacf > 0
SmoothingRequested(smoothacf) ==
    smoothacf # None /\ smoothacf[1] # 0 /\ IsInt(smoothacf) /\ smoothacf[1] > 0

\* smoothfunckwargs.update({'windowsize': smoothacf})
kwargs_update(d, smoothacf) == [d EXCEPT !.windowsize = Some(smoothacf[1])]

\* the keywords smoothfunc is called with: the dict after the update
smoothcallkwargs_stale(d, smoothacf) == d

smoothcallkwargs(d, smoothacf) == kwargs_update(d, smoothacf)

\* int(smoothacf/2) for a number: the quotient truncated towards zero
searchinterval_of(smoothacf) ==
    IF smoothacf[1] >= 0 THEN smoothacf[1] \div 2
    ELSE -((-smoothacf[1]) \div 2)

\* a sample that also takes the relpeaklags equal to the best lag
fitlags_ge(peakres) ==
    <<0, peakres.bestlag>> \o
    SelectSeq(peakres.relpeaklags, LAMBDA l : l >= peakres.bestlag)

\* the lags the line is fitted to: 0, the best lag and the relpeaklags
\* greater than the best lag
fitlags(peakres) ==
    <<0, peakres.bestlag>> \o
    SelectSeq(peakres.relpeaklags, LAMBDA l : l > peakres.bestlag)

\* np.polyfit(fitx, fity, 1, cov=True) for fitx = 0..m-1.  With cov=True
\* numpy needs more than two points to scale the covariance and raises
\* ValueError otherwise.  bestperiodrms_sq is fitcovar[0,0], the square of
\* bestperiodrms.
polyfit_line(fity) ==
    IF Len(fity) <= 2 THEN Raised("ValueError")
    ELSE
    LET m    == Len(fity)
        Sx   == SumTo([k \in 1..m |-> k - 1], m)
        Sxx  == SumTo([k \in 1..m |-> (k - 1) * (k - 1)], m)
        Sy   == SumTo(fity, m)
        Sxy  == SumTo([k \in 1..m |-> (k - 1) * fity[k]], m)
        Syy  == SumTo([k \in 1..m |-> fity[k] * fity[k]], m)
        D    == m * Sxx - Sx * Sx
        Nxy  == m * Sxy - Sx * Sy
        Nyy  == m * Syy - Sy * Sy
        R    == Nyy * D - Nxy * Nxy
        dof  == m - 2
    IN  [status           |-> "ok",
         fitcoeffs        |-> <<FDiv(Nxy, D), FDiv(Sy * D - Nxy * Sx, m * D)>>,
         fitcovar         |-> << <<FDiv(R, dof * D * D),
                                   FDiv(-(R * Sx), m * dof * D * D)>>,
                                 <<FDiv(-(R * Sx), m * dof * D * D),
                                   FDiv(R * Sxx, m * dof * D * D)>> >>,
         fitbestperiod    |-> FDiv(Nxy, D),
         bestperiodrms_sq |-> FDiv(R, dof * D * D)]

\* what the except branch of lines 269-277 leaves in the locals
FitNaN ==
    [status           |-> "failed",
     fitcoeffs        |-> <<NaN, NaN>>,
     fitcovar         |-> << <<NaN, NaN>>, <<NaN, NaN>> >>,
     fitbestperiod    |-> NaN,
     bestperiodrms_sq |-> NaN]

\* fitbestperiod < naivebestperiod
aliascheck_le(fitbestperiod, naivebestperiod) ==
    ~RGreater(fitbestperiod, naivebestperiod)

aliascheck(fitbestperiod, naivebestperiod) ==
    RLess(fitbestperiod, naivebestperiod)

\* the record of lines 294-316; 'smoothfunckwargs' is the dict object
\* itself, named by kwref, not a copy of it
resultrecord(a, acfres, x, peakres, f, naivebestperiod) ==
    [bestperiod       |-> IF ~IsNaN(f.fitbestperiod) THEN f.fitbestperiod
                          ELSE naivebestperiod,
     bestlspval       |-> peakres.bestpeakheight,
     nbestpeaks       |-> a.maxacfpeaks,
     lspvals          |-> x,
     periods          |-> [k \in DOMAIN acfres.lags |->
                              acfres.lags[k] * acfres.cadence],
     acf              |-> x,
     lags             |-> acfres.lags,
     method           |-> "acf",
     naivebestperiod  |-> naivebestperiod,
     fitbestperiod    |-> f.fitbestperiod,
     fitperiodrms_sq  |-> f.bestperiodrms_sq,
     periodfitcoeffs  |-> f.fitcoeffs,
     periodfitcovar   |-> f.fitcovar,
     kwargs           |-> [maxlags          |-> a.maxlags,
                           maxacfpeaks      |-> a.maxacfpeaks,
                           smoothacf        |-> a.smoothacf,
                           smoothfunckwargs |-> a.kwref],
     acfresults       |-> acfres,
     acfpeaks         |-> peakres]

\* the call: the arguments are bound and the locals are fresh
Invoke(a) ==
    /\ pc = "idle"
    /\ pc' = "autocorr"
    /\ args' = a
    /\ ac_args' = NoArgs /\ ac_ret' = NotCalled
    /\ pk_args' = NoArgs /\ pk_ret' = NotCalled
    /\ xacf' = None /\ fit' = None /\ ret' = None /\ err' = None
    /\ log' = {}
    /\ UNCHANGED <<dicts, prev, queryvars>>

\* lines 218-232
Correlate ==
    /\ pc = "autocorr"
    /\ ac_args' = [interpolated |-> args.interpolated,
                   maxlags      |-> args.maxlags]
    /\ ac_ret' = autocorr_magseries(args.interpolated, args.maxlags)
    /\ IF ac_ret'.status = "ok"
       THEN pc' = "smooth" /\ err' = err
       ELSE pc' = "raised" /\ err' = Some(ac_ret'.exc)
    /\ UNCHANGED <<peakvars, args, dicts, xacf, fit, ret, log, prev, queryvars>>

\* lines 234-242
Smooth ==
    /\ pc = "smooth"
    /\ IF SmoothingRequested(args.smoothacf)
       THEN LET sm == smooth_acf_savgol(ac_ret.acf,
                        smoothcallkwargs(dicts[args.kwref], args.smoothacf))
            IN  /\ dicts' = [dicts EXCEPT ![args.kwref] =
                                kwargs_update(@, args.smoothacf)]
                /\ IF sm.status = "ok"
                   THEN pc' = "peaks" /\ xacf' = Some(sm.smoothed)
                                      /\ err' = err
                   ELSE pc' = "raised" /\ xacf' = xacf
                                       /\ err' = Some(sm.exc)
       ELSE /\ xacf' = Some(ac_ret.acf)
            /\ pc' = "peaks"
            /\ UNCHANGED <<dicts, err>>
    /\ UNCHANGED <<peakvars, corrvars, args, fit, ret, log, prev, queryvars>>

\* a peak extraction fed with the ACF of the Correlator instead of the
\* output of the smoothing
Peaks_unsmoothed ==
    /\ pc = "peaks"
    /\ IF args.smoothacf = None
       THEN /\ pc' = "raised" /\ err' = Some("TypeError")
            /\ UNCHANGED peakvars
       ELSE /\ pk_args' = [lags           |-> ac_ret.lags,
                           acf            |-> ac_ret.acf,
                           npeaks         |-> args.maxacfpeaks,
                           searchinterval |-> searchinterval_of(args.smoothacf)]
            /\ pk_ret' = get_acf_peakheights(pk_args'.lags, pk_args'.acf,
                            pk_args'.npeaks, pk_args'.searchinterval)
            /\ IF pk_ret'.status = "ok"
               THEN pc' = "fit" /\ err' = err
               ELSE pc' = "raised" /\ err' = Some(pk_ret'.exc)
    /\ UNCHANGED <<corrvars, args, dicts, xacf, fit, ret, log, prev, queryvars>>

\* lines 245-250
Peaks ==
    /\ pc = "peaks"
    /\ IF args.smoothacf = None
       THEN \* int(None/2)
            /\ pc' = "raised" /\ err' = Some("TypeError")
            /\ UNCHANGED peakvars
       ELSE /\ pk_args' = [lags           |-> ac_ret.lags,
                           acf            |-> xacf[1],
                           npeaks         |-> args.maxacfpeaks,
                           searchinterval |-> searchinterval_of(args.smoothacf)]
            /\ pk_ret' = get_acf_peakheights(pk_args'.lags, pk_args'.acf,
                            pk_args'.npeaks, pk_args'.searchinterval)
            /\ IF pk_ret'.status = "ok"
               THEN pc' = "fit" /\ err' = err
               ELSE pc' = "raised" /\ err' = Some(pk_ret'.exc)
    /\ UNCHANGED <<corrvars, args, dicts, xacf, fit, ret, log, prev, queryvars>>

\* lines 252-278
Fit ==
    /\ pc = "fit"
    /\ LET lagsfit == fitlags(pk_ret)
           fity    == [k \in DOMAIN lagsfit |-> lagsfit[k] * ac_ret.cadence]
           f       == polyfit_line(fity)
       IN  IF f.status = "ok"
           THEN /\ fit' = Some(f)
                /\ pc' = "finish"
                /\ UNCHANGED <<log, err>>
           ELSE \* the except branch: warn, set the locals to NaN, raise
                /\ log' = log \cup {"fit failed"}
                /\ fit' = Some(FitNaN)
                /\ pc' = "raised"
                /\ err' = Some(f.exc)
    /\ UNCHANGED <<peakvars, corrvars, args, dicts, xacf, ret, prev, queryvars>>

\* lines 280-316
Finish ==
    /\ pc = "finish"
    /\ LET naivebestperiod == Flt(pk_ret.bestlag * ac_ret.cadence)
       IN  /\ log' = IF aliascheck(fit[1].fitbestperiod, naivebestperiod)
                     THEN log \cup {"alias"} ELSE log
           /\ ret' = Some(resultrecord(args, ac_ret, xacf[1], pk_ret, fit[1],
                                       naivebestperiod))
    /\ pc' = "returned"
    /\ UNCHANGED <<peakvars, corrvars, args, dicts, xacf, fit, err, prev, queryvars>>

----------------------------------------------------------------------------
(* One call of macf_period_find, on every small input *)

\* the dicts a caller passes as smoothfunckwargs
CallerDicts == {EmptyDict, [EmptyDict EXCEPT !.polyorder = Some(1)]}

\* smoothacf: None, 0, the windows 3 and 5, and the float 3.0
SmoothAcfValues == {None, Some(0), Some(3), Some(5), Flt(3)}

Zeros(n) == [k \in 1..n |-> 0]

PipeSeries == SeqsOfLen({-1, 1}, MaxPipeLen) \cup {Zeros(MaxPipeLen)}

PipeInputs ==
    [interpolated : {None} \cup
                    {Some([imags |-> s, cadence |-> 2]) : s \in PipeSeries},
     maxlags      : {None, Some(PipeMaxLags)},
     maxacfpeaks  : 1..MaxPeaks,
     smoothacf    : SmoothAcfValues,
     kwref        : {"default", "caller"}]

Init ==
    /\ pk_args = NoArgs /\ pk_ret = NotCalled
    /\ ac_args = NoArgs /\ ac_ret = NotCalled
    /\ pc = "idle"
    /\ args = NoArgs
    /\ dicts \in [default : {EmptyDict}, caller : CallerDicts]
    /\ xacf = None /\ fit = None /\ ret = None /\ err = None
    /\ log = {}
    /\ prev = None
    /\ QueryIdle

InvokeAny == pc = "idle" /\ \E a \in PipeInputs : Invoke(a)

Next == InvokeAny \/ Correlate \/ Smooth \/ Peaks \/ Fit \/ Finish

Spec == Init /\ [][Next]_vars

----------------------------------------------------------------------------
(* Calls of macf_period_find one after the other in one process *)

\* a series of period 4 and an alternating one
Period4 == <<1, 1, -1, -1, 1, 1, -1, -1, 1, 1, -1, -1, 1>>

Period2 == <<1, -1, 1, -1, 1, -1, 1>>

FewInputs ==
    [interpolated : {Some([imags |-> s, cadence |-> 2]) :
                        s \in {Period4, Period2}},
     maxlags      : {None},
     maxacfpeaks  : {2, 3},
     smoothacf    : {Some(3), Some(5), Flt(3)},
     kwref        : {"default", "caller"}]

InvokeFew == pc = "idle" /\ \E a \in FewInputs : Invoke(a)

\* the call has returned or raised and the caller calls again
CallAgain ==
    /\ pc \in {"returned", "raised"}
    /\ \E a \in FewInputs :
        /\ prev' = Some([args |-> args, ret |-> ret, err |-> err,
                         echo |-> dicts[args.kwref]])
        /\ pc' = "autocorr"
        /\ args' = a
        /\ ac_args' = NoArgs /\ ac_ret' = NotCalled
        /\ pk_args' = NoArgs /\ pk_ret' = NotCalled
        /\ xacf' = None /\ fit' = None /\ ret' = None /\ err' = None
        /\ log' = {}
        /\ UNCHANGED <<dicts, queryvars>>

NextCalls ==
    InvokeFew \/ CallAgain \/ Correlate \/ Smooth \/ Peaks \/ Fit \/ Finish

SpecCalls == Init /\ [][NextCalls]_vars

----------------------------------------------------------------------------
(* Claims about one call of macf_period_find, checked under Spec *)

Returned == pc = "returned"

FitFailed == fit # None /\ fit[1].status = "failed"

\* C2 (as claimed): when the least-squares fit cannot be solved the call
\* does not raise; it returns a record whose fitted period, its error, the
\* fit coefficients and the fit covariance are NaN and whose bestperiod is
\* the naive period, best lag times cadence.
C2_FitFailureDegrades ==
    FitFailed =>
        /\ pc # "raised"
        /\ Returned =>
              /\ IsNaN(ret[1].fitbestperiod)
              /\ IsNaN(ret[1].fitperiodrms_sq)
              /\ ret[1].periodfitcoeffs = <<NaN, NaN>>
              /\ ret[1].periodfitcovar = << <<NaN, NaN>>, <<NaN, NaN>> >>
              /\ ret[1].bestperiod = ret[1].naivebestperiod
              /\ ret[1].naivebestperiod = Flt(pk_ret.bestlag * ac_ret.cadence)

\* the fit of two points failed: the warning is logged, the locals are NaN
\* and the call has raised
C2_Witness ==
    /\ FitFailed
    /\ "fit failed" \in log
    /\ IsNaN(fit[1].fitbestperiod)
    /\ Len(fitlags(pk_ret)) = 2
    /\ pc = "raised"
    /\ err = Some("ValueError")
    /\ ret = None

SmoothingDisabled == args # NoArgs /\ ~SmoothingRequested(args.smoothacf)

\* C4 (as claimed): when smoothing is disabled, by None or otherwise, and
\* the Correlator has returned, the call goes on: the Peak Extractor is
\* handed the unsmoothed ACF with a search interval it accepts, and a record
\* returned holds the unsmoothed ACF.
C4_DisabledSmoothingCompletes ==
    (SmoothingDisabled /\ ac_ret.status = "ok"
        /\ pc \in {"fit", "finish", "returned", "raised"}) =>
        /\ pk_args # NoArgs
        /\ pk_args.acf = ac_ret.acf
        /\ pk_args.searchinterval >= 1
        /\ Returned => ret[1].acf = ac_ret.acf

\* smoothacf=None: the Correlator returned and the call raised TypeError
\* before the Peak Extractor was called
C4_Witness ==
    /\ args # NoArgs
    /\ args.smoothacf = None
    /\ ac_ret.status = "ok"
    /\ pk_args = NoArgs
    /\ pc = "raised"
    /\ err = Some("TypeError")

\* the maximum at mxi has no minimum strictly left or none strictly right
LacksBracket(mininds, mxi) ==
    \/ \A k \in DOMAIN mininds : mininds[k] >= mxi
    \/ \A k \in DOMAIN mininds : mininds[k] <= mxi

\* one of the first npeaks maxima of the ACF handed to the Peak Extractor
\* lacks a bracketing minimum
SomePeakLacksBracket ==
    LET maxinds == argrelmax(pk_args.acf, pk_args.searchinterval)
        mininds == argrelmin(pk_args.acf, pk_args.searchinterval)
        first   == firstpeaks(maxinds, pk_args.npeaks)
    IN  \E k \in DOMAIN first : LacksBracket(mininds, first[k])

\* C10: if one of the first N collected maxima has no collected minimum
\* strictly to its left, or none strictly to its right, the Peak Extractor
\* raises and returns no PeakSet, and the call of macf_period_find raises
\* with it and returns no record.
C10_MissingBracketAborts ==
    (pk_args # NoArgs /\ pk_args.searchinterval >= 1
        /\ SomePeakLacksBracket) =>
        /\ pk_ret = Raised("IndexError")
        /\ pc = "raised"
        /\ err = Some("IndexError")
        /\ ret = None

\* the Peak Extractor raised on an ACF with all its lags, a maximum without
\* a minimum on one side and minima on the other
C10_Witness ==
    /\ pk_args # NoArgs
    /\ pk_args.searchinterval >= 1
    /\ Len(pk_args.lags) = Len(pk_args.acf)
    /\ SomePeakLacksBracket
    /\ argrelmin(pk_args.acf, pk_args.searchinterval) # <<>>
    /\ pk_ret = Raised("IndexError")
    /\ pc = "raised"

----------------------------------------------------------------------------
(* Claims about successive calls, checked under SpecCalls *)

\* the current call has the arguments of the call before it
SameCall == prev # None /\ prev[1].args = args

\* a record as its reader sees it: the echoed smoothfunckwargs is the dict
\* it names
Observed(r) == [r EXCEPT !.kwargs.smoothfunckwargs = dicts[@]]

\* C5: a call with the arguments of the call before it ends as that call
\* did: it raises the same exception, or returns an identical record, the
\* echoed configuration included, and leaves smoothfunckwargs as that call
\* left it.
C5_Idempotent ==
    (SameCall /\ pc \in {"returned", "raised"}) =>
        /\ err = prev[1].err
        /\ (ret = None) <=> (prev[1].ret = None)
        /\ ret # None => Observed(ret[1]) = Observed(prev[1].ret[1])
        /\ dicts[args.kwref] = prev[1].echo

\* two calls with the same arguments and the default smoothfunckwargs, both
\* returned
C5_Witness ==
    /\ SameCall
    /\ Returned
    /\ args.kwref = "default"
    /\ prev[1].ret # None

\* C6 (as claimed): no step of a call changes the dict the caller passed as
\* smoothfunckwargs, the default dict, or the record an earlier call
\* returned as its reader sees it.
C6_NoSharedMutableState ==
    [][/\ dicts'.caller = dicts.caller
       /\ dicts'.default = dicts.default
       /\ (prev # None /\ prev' = prev /\ prev[1].ret # None) =>
              dicts'[prev[1].args.kwref] = dicts[prev[1].args.kwref]]_vars

\* a call with smoothacf=3 and the default smoothfunckwargs returned; after
\* the next call with smoothacf=5 its record echoes windowsize 5
C6_Witness ==
    /\ prev # None
    /\ prev[1].ret # None
    /\ prev[1].ret[1].kwargs.smoothacf = Some(3)
    /\ prev[1].echo.windowsize = Some(3)
    /\ Observed(prev[1].ret[1]).kwargs.smoothfunckwargs.windowsize = Some(5)

----------------------------------------------------------------------------
(* Claims about the failure of a stage and the order of the stages,        *)
(* checked under Spec                                                      *)

\* fill_magseries_gaps returned nothing for this call
ResampleFailed == args # NoArgs /\ args.interpolated = None

\* C11: when the gap filling fails, macf_period_find raises to its caller,
\* returns no record, and neither the smoothing, nor the peak extraction,
\* nor the line fit runs.
C11_ResampleFailureAborts ==
    (ResampleFailed /\ pc # "autocorr") =>
        /\ pc = "raised"
        /\ err # None
        /\ ret = None
        /\ ac_ret.status = "raised"
        /\ xacf = None
        /\ pk_args = NoArgs /\ pk_ret = NotCalled
        /\ fit = None
        /\ log = {}

\* the gap filling failed, the Correlator was called and the call raised
C11_Witness ==
    /\ ResampleFailed
    /\ ac_args # NoArgs /\ ac_args.interpolated = None
    /\ ac_ret = Raised("NameError")
    /\ pc = "raised"
    /\ err = Some("NameError")

\* C12: in a call of macf_period_find the Correlator (which runs the gap
\* filling), the smoothing, the peak extraction, the line fit and the
\* assembly of the record each run at most once and in this order, each on
\* the output of the one before; after a stage has raised none runs, and a
\* record is only ever built after a fit was attempted.
C12_StagesInOrder ==
    [][/\ (ac_ret' # ac_ret) =>
             /\ ac_ret = NotCalled /\ err = None
             /\ ac_args'.interpolated = args.interpolated
             /\ xacf = None /\ pk_ret = NotCalled /\ fit = None /\ ret = None
       /\ (xacf' # xacf) =>
             /\ xacf = None /\ err = None
             /\ ac_ret.status = "ok" /\ ac_ret' = ac_ret
             /\ \/ xacf'[1] = ac_ret.acf
                \/ /\ SmoothingRequested(args.smoothacf)
                   /\ xacf'[1] =
                        smooth_acf_savgol(ac_ret.acf,
                                          dicts'[args.kwref]).smoothed
             /\ pk_ret = NotCalled /\ fit = None /\ ret = None
       /\ (pk_ret' # pk_ret) =>
             /\ pk_ret = NotCalled /\ err = None
             /\ xacf # None /\ xacf' = xacf
             /\ pk_args'.acf = xacf[1]
             /\ pk_args'.lags = ac_ret.lags
             /\ fit = None /\ ret = None
       /\ (fit' # fit) =>
             /\ fit = None /\ err = None
             /\ pk_ret.status = "ok" /\ pk_ret' = pk_ret
             /\ ret = None
       /\ (ret' # ret) =>
             /\ ret = None /\ err = None
             /\ fit # None /\ fit' = fit
             /\ ret'[1].acfpeaks = pk_ret
             /\ ret'[1].acf = xacf[1]
             /\ ret'[1].fitbestperiod = fit[1].fitbestperiod
      ]_vars

\* a record was returned by a call that smoothed the ACF into something
\* else, extracted the peaks of the smoothed ACF and fitted them
C12_Witness ==
    /\ Returned
    /\ SmoothingRequested(args.smoothacf)
    /\ xacf[1] # ac_ret.acf
    /\ pk_args.acf = xacf[1]
    /\ pk_ret.status = "ok"
    /\ fit[1].status = "ok"
    /\ ret[1].acfpeaks = pk_ret

----------------------------------------------------------------------------
(* Claims about the lag range of the Correlator, checked under SpecCorr *)

\* the Correlator was called with a lag count that is not smaller than the
\* length of the gap-filled series
LagCountTooLarge ==
    /\ ac_ret # NotCalled
    /\ ac_args.interpolated # None
    /\ ac_args.maxlags # None
    /\ ac_args.maxlags[1] >= Len(ac_args.interpolated[1].imags)

\* C13 (as claimed): when the requested maximum lag count is greater than
\* or equal to the length of the gap-filled series, autocorr_magseries
\* fails with an error and returns no lags and no ACF.
C13_LagRangeRejected ==
    LagCountTooLarge => ac_ret.status = "raised"

\* a lag count beyond the series was accepted: the call returned more lags
\* than ACF values
C13_Witness ==
    /\ LagCountTooLarge
    /\ ac_ret.status = "ok"
    /\ Len(ac_ret.lags) = ac_args.maxlags[1]
    /\ Len(ac_ret.acf) = Len(ac_args.interpolated[1].imags)
    /\ Len(ac_ret.lags) > Len(ac_ret.acf)

----------------------------------------------------------------------------
(* Claims about the sample the line is fitted to, checked under Spec *)

\* the line fit of the current call has been attempted
FitAttempted == fit # None

\* the times a sequence of lags stands for
TimesOf(lagseq) == [k \in DOMAIN lagseq |-> lagseq[k] * ac_ret.cadence]

\* the fit sample of the current call: entry k is the time of index k-1
FitSample == TimesOf(fitlags(pk_ret))

\* time 0, the time of the best lag, then the times of those of the maxima
\* with the lags maxlagseq that lie beyond the best lag
SampleFrom(maxlagseq) ==
    TimesOf(<<0, pk_ret.bestlag>> \o
            SelectSeq(maxlagseq, LAMBDA l : l > pk_ret.bestlag))

\* the fit made of a sample
FitOf(sample) ==
    IF polyfit_line(sample).status = "ok" THEN polyfit_line(sample)
    ELSE FitNaN

\* C15 (as claimed): the fit sample is time 0 at index 0, best lag times
\* cadence at index 1, then the time of every maximum found in the ACF whose
\* lag exceeds the best lag, in increasing order at the indices 2, 3, ...;
\* none of them is left out and nothing else is in it.
C15_FitSampleAllMaxima ==
    FitAttempted =>
        /\ FitSample = SampleFrom(pk_ret.maxlags)
        /\ fit[1] = FitOf(SampleFrom(pk_ret.maxlags))

\* the lags of the first npeaks maxima
FirstMaxLags == SubSeq(pk_ret.maxlags, 1,
                       Min2(pk_args.npeaks, Len(pk_ret.maxlags)))

\* C15 (amended): the fit sample is time 0 at index 0, best lag times
\* cadence at index 1, then the times of those of the first npeaks maxima
\* whose lag exceeds the best lag, in increasing order at the indices
\* 2, 3, ...; a maximum after the first npeaks is not in it, nor is a
\* maximum at or before the best lag, nor a zero placeholder after index 1.
C15_FitSampleFirstMaxima ==
    FitAttempted =>
        /\ FitSample = SampleFrom(FirstMaxLags)
        /\ fit[1] = FitOf(SampleFrom(FirstMaxLags))
        /\ \A k \in 3..Len(FitSample) :
              /\ FitSample[k] > FitSample[k - 1]
              /\ \E j \in 1..Len(FirstMaxLags) :
                    FitSample[k] = FirstMaxLags[j] * ac_ret.cadence

\* a line was fitted while the ACF had more maxima beyond the best lag than
\* the sample holds
C15_Witness ==
    /\ FitAttempted
    /\ fit[1].status = "ok"
    /\ Len(FitSample) >= 3
    /\ Len(pk_ret.maxlags) > pk_args.npeaks
    /\ Len(SampleFrom(pk_ret.maxlags)) > Len(FitSample)

----------------------------------------------------------------------------
(* Claims about the heights and the selection of the Peak Extractor,       *)
(* checked under SpecPeaks                                                 *)

\* the number of maxima the heights are computed for
NumHeights == Min2(pk_args.npeaks, Len(pk_ret.maxinds))

\* the collected minimum nearest to index i on its left, and on its right
NearestMinLeft(i) == SetMax({m \in Range(pk_ret.mininds) : m < i})

NearestMinRight(i) == SetMin({m \in Range(pk_ret.mininds) : m > i})

\* C16: in a PeakSet returned, for k up to the smaller of npeaks and the
\* number of maxima, entry k of the relative heights is the ACF at the k-th
\* maximum in lag order minus the mean of the ACF at the nearest minimum
\* strictly left of it and at the nearest minimum strictly right of it, and
\* entry k of the peak lags is the lag of that maximum.
C16_RelativeHeights ==
    PeakReturned =>
        /\ \A k \in 1..(Len(pk_ret.maxinds) - 1) :
              pk_ret.maxinds[k] < pk_ret.maxinds[k + 1]
        /\ \A k \in 1..NumHeights :
              LET i == pk_ret.maxinds[k]
              IN  /\ pk_ret.relpeakheights[k] =
                        RSub(At(pk_args.acf, i),
                             RHalf(RAdd(At(pk_args.acf, NearestMinLeft(i)),
                                        At(pk_args.acf, NearestMinRight(i)))))
                  /\ pk_ret.relpeaklags[k] = At(pk_args.lags, i)
                  /\ pk_ret.peakindices[k] = k - 1

\* a PeakSet with two maxima, the first the lower one, bracketed by minima
\* of different depth
C16_Witness ==
    /\ PeakReturned
    /\ NumHeights >= 2
    /\ RLess(At(pk_args.acf, pk_ret.maxinds[1]),
             At(pk_args.acf, pk_ret.maxinds[2]))
    /\ At(pk_args.acf, NearestMinLeft(pk_ret.maxinds[2])) #
       At(pk_args.acf, NearestMinRight(pk_ret.maxinds[2]))
    /\ pk_ret.relpeakheights[2] # pk_ret.relpeakheights[1]

\* the indices of the ACF other than i within the search interval of i
Window(i) ==
    {j \in 0..(Len(pk_args.acf) - 1) :
        j # i /\ j >= i - pk_args.searchinterval
               /\ j <= i + pk_args.searchinterval}

\* index i is strictly above, or strictly below, all of its window
StrictlyAbove(i) ==
    \A j \in Window(i) : RGreater(At(pk_args.acf, i), At(pk_args.acf, j))

StrictlyBelow(i) ==
    \A j \in Window(i) : RLess(At(pk_args.acf, i), At(pk_args.acf, j))

\* C17 (as claimed): the maxima collected are exactly the indices, the
\* first and the last of the sequence included, whose ACF value is strictly
\* greater than every other sample within the search interval, in
\* increasing order; the minima likewise with strictly less.
C17_ExtremaEverywhere ==
    PeakReturned =>
        /\ pk_ret.maxinds =
              SortedSeq({i \in 0..(Len(pk_args.acf) - 1) : StrictlyAbove(i)})
        /\ pk_ret.mininds =
              SortedSeq({i \in 0..(Len(pk_args.acf) - 1) : StrictlyBelow(i)})

\* C17 (amended): the maxima collected are exactly the indices other than
\* the first and the last of the sequence whose ACF value is strictly
\* greater than every other sample within the search interval, in
\* increasing order; the minima likewise with strictly less; the first and
\* the last index are never collected.
C17_ExtremaInterior ==
    PeakReturned =>
        /\ pk_ret.maxinds =
              SortedSeq({i \in 1..(Len(pk_args.acf) - 2) : StrictlyAbove(i)})
        /\ pk_ret.mininds =
              SortedSeq({i \in 1..(Len(pk_args.acf) - 2) : StrictlyBelow(i)})
        /\ \A k \in 1..(Len(pk_ret.maxinds) - 1) :
              pk_ret.maxinds[k] < pk_ret.maxinds[k + 1]
        /\ \A k \in 1..(Len(pk_ret.mininds) - 1) :
              pk_ret.mininds[k] < pk_ret.mininds[k + 1]

\* a PeakSet of an ACF whose first sample is strictly above its window and
\* whose last sample is strictly below its window, neither collected, with
\* a search interval of 2
C17_Witness ==
    /\ PeakReturned
    /\ pk_args.searchinterval = 2
    /\ StrictlyAbove(0)
    /\ StrictlyBelow(Len(pk_args.acf) - 1)
    /\ 0 \notin Range(pk_ret.maxinds)
    /\ (Len(pk_args.acf) - 1) \notin Range(pk_ret.mininds)
    /\ pk_ret.maxinds # <<>>

\* the best lag and the best height are those of one of the maxima the
\* heights were computed for
BestIsAMaximum ==
    \E k \in 1..NumHeights :
        /\ pk_ret.bestlag = At(pk_args.lags, pk_ret.maxinds[k])
        /\ pk_ret.bestpeakheight = pk_ret.relpeakheights[k]

\* C18 (as claimed): in every PeakSet returned, whatever npeaks and the
\* number of maxima found, the best lag is the lag of one of the collected
\* maxima and the best height is the relative height of that maximum; a
\* slot left at zero because fewer than npeaks maxima were found is never
\* the one selected.
C18_BestIsCollectedMaximum ==
    PeakReturned => BestIsAMaximum

\* a PeakSet was returned for an ACF with fewer than two maxima, and its
\* best lag is the lag 0 of a slot left at zero
C18_Witness ==
    /\ PeakReturned
    /\ pk_args.npeaks >= 2
    /\ Len(pk_ret.maxinds) <= 1
    /\ pk_ret.bestlag = 0
    /\ pk_ret.bestpeakheight = Flt(0)
    /\ pk_ret.bestpeakindex = 0
    /\ ~BestIsAMaximum

----------------------------------------------------------------------------
(* services/trilegal.py, query_galcoords: the cache file, the lock file,   *)
(* the form submission and the polling loop.  Times are whole seconds.     *)
(* Each instance is a process of its own; the cache directory is shared.   *)
(* A step is one access to the directory or one request.                   *)

\* the largest refresh and maxtimeout of an instance running alone
MaxRefresh == 2

MaxTimeout == 5

\* the largest maxtimeout of instances running side by side
RaceMaxTimeout == 1

\* The form is a dict from field names to values.  Two fields stand for
\* all of them: gc_l, which query_galcoords sets from its arguments, and
\* imf_file, which only extraparams can change.

\* dict.update
dictupdate(d, e) ==
    [f \in DOMAIN d \cup DOMAIN e |-> IF f \in DOMAIN e THEN e[f] ELSE d[f]]

\* TRILEGAL_DEFAULT_PARAMS, lines 131-205
DefaultParams == [gc_l |-> 0, imf_file |-> 0]

\* inputparams, lines 567-616: the arguments of the call, formatted
inputparams(a) == [gc_l |-> a.inp]

\* extraparams: None or a dict that overrides imf_file
ExtraParams == {None, Some([imf_file |-> 1])}

\* trilegal_params, lines 619-624: the form that is submitted
trilegal_params(a) ==
    LET base == dictupdate(DefaultParams, inputparams(a))
    IN  IF a.extraparams # None THEN dictupdate(base, a.extraparams[1])
        ELSE base

\* cachekey (lines 633-634): the sha256 digest of repr(inputparams), taken
\* as injective
cachekey(a) == inputparams(a).gc_l

\* the content of a result file: the form it is the answer to and whether
\* the download ran to the end
CacheFile(a, complete) ==
    Some([form |-> trilegal_params(a), complete |-> complete])

\* resdict
resdict(a, provenance) ==
    [status      |-> "ok",
     params      |-> inputparams(a),
     extraparams |-> a.extraparams,
     provenance  |-> provenance,
     tablefile   |-> cachekey(a)]

ReturnedNone == [status |-> "none"]

\* the value returned once the finally clause is through
Pending(p) ==
    IF qloc[p].pending = "res" THEN resdict(qargs[p], "new download")
    ELSE ReturnedNone

\* the call: the arguments are bound
QCall(p, a) ==
    /\ qpc[p] = "idle"
    /\ qargs' = [qargs EXCEPT ![p] = a]
    /\ qpc' = [qpc EXCEPT ![p] = "cache"]
    /\ UNCHANGED <<qloc, qret, fs, posts, periodvars>>

\* line 640: forcefetch or (not os.path.exists(cachefname)); lines 763-781
QCheckCache(p) ==
    /\ qpc[p] = "cache"
    /\ IF qargs[p].forcefetch \/ fs.cache[cachekey(qargs[p])] = None
       THEN /\ qpc' = [qpc EXCEPT ![p] = "lock"]
            /\ qret' = qret
       ELSE /\ qpc' = [qpc EXCEPT ![p] = "done"]
            /\ qret' = [qret EXCEPT ![p] = resdict(qargs[p], "cache")]
    /\ UNCHANGED <<qargs, qloc, fs, posts, periodvars>>

\* line 644: os.path.exists(lockfile)
QCheckLock(p) ==
    /\ qpc[p] = "lock"
    /\ qpc' = [qpc EXCEPT ![p] =
                 IF fs.lock[cachekey(qargs[p])] # None THEN "readlock"
                 ELSE "writelock"]
    /\ UNCHANGED <<qargs, qloc, qret, fs, posts, periodvars>>

\* lines 645-653: the lock file is read and the call returns None; the
\* open is outside the try block and raises when the file is gone
QReadLock(p) ==
    /\ qpc[p] = "readlock"
    /\ qret' = [qret EXCEPT ![p] =
                  IF fs.lock[cachekey(qargs[p])] = None
                  THEN Raised("FileNotFoundError")
                  ELSE ReturnedNone]
    /\ qpc' = [qpc EXCEPT ![p] = "done"]
    /\ UNCHANGED <<qargs, qloc, fs, posts, periodvars>>

\* lines 655-657: open(lockfile, 'w') creates the file or overwrites it
QWriteLock(p) ==
    /\ qpc[p] = "writelock"
    /\ fs' = [fs EXCEPT !.lock[cachekey(qargs[p])] = Some(p)]
    /\ qloc' = [qloc EXCEPT ![p].created = TRUE]
    /\ qpc' = [qpc EXCEPT ![p] = "post"]
    /\ UNCHANGED <<qargs, qret, posts, periodvars>>

\* what the submission of the form can come to
PostOutcomes == {"url", "nourl", "timeout", "error"}

\* lines 668-691 and 732-754: requests.post and the search for the URL of
\* the result file in the response
QPost(p) ==
    /\ qpc[p] = "post"
    /\ posts' = [posts EXCEPT ![p] = @ + 1]
    /\ \E outcome \in PostOutcomes :
          /\ qpc' = [qpc EXCEPT ![p] =
                       CASE outcome = "url"   -> "poll"
                         [] outcome = "nourl" -> "rmcheck"
                         [] OTHER             -> "fincheck"]
          /\ qloc' = [qloc EXCEPT ![p].timeelapsed = 0,
                                  ![p].pending = "none"]
    /\ UNCHANGED <<qargs, qret, fs, periodvars>>

\* what a download attempt can come to: the file is there and is written to
\* the cache; the file is not there yet (raise_for_status raises); the
\* cache file is opened for writing and the transfer breaks off
DownloadOutcomes == {"ok", "notready", "broken"}

\* a loop that gives up one refresh later
QPoll_late(p) ==
    /\ qpc[p] = "poll"
    /\ IF qloc[p].timeelapsed > qargs[p].maxtimeout + qargs[p].refresh
       THEN /\ qpc' = [qpc EXCEPT ![p] = "rmcheck"]
            /\ UNCHANGED <<qloc, fs>>
       ELSE \E outcome \in DownloadOutcomes :
            /\ qloc' = [qloc EXCEPT
                          ![p].timeelapsed = @ + qargs[p].refresh,
                          ![p].attempts = @ + 1,
                          ![p].pending = IF outcome = "ok" THEN "res" ELSE @]
            /\ fs' = IF outcome = "notready" THEN fs
                     ELSE [fs EXCEPT !.cache[cachekey(qargs[p])] =
                             CacheFile(qargs[p], outcome = "ok")]
            /\ qpc' = [qpc EXCEPT ![p] =
                         IF outcome = "ok" THEN "fincheck" ELSE "poll"]
    /\ UNCHANGED <<qargs, qret, posts, periodvars>>

\* lines 694-731, one turn of the loop: the test of the time waited, then
\* the sleep and one download attempt
QPoll(p) ==
    /\ qpc[p] = "poll"
    /\ IF qloc[p].timeelapsed > qargs[p].maxtimeout
       THEN /\ qpc' = [qpc EXCEPT ![p] = "rmcheck"]
            /\ UNCHANGED <<qloc, fs>>
       ELSE \E outcome \in DownloadOutcomes :
            /\ qloc' = [qloc EXCEPT
                          ![p].timeelapsed = @ + qargs[p].refresh,
                          ![p].attempts = @ + 1,
                          ![p].pending = IF outcome = "ok" THEN "res" ELSE @]
            /\ fs' = IF outcome = "notready" THEN fs
                     ELSE [fs EXCEPT !.cache[cachekey(qargs[p])] =
                             CacheFile(qargs[p], outcome = "ok")]
            /\ qpc' = [qpc EXCEPT ![p] =
                         IF outcome = "ok" THEN "fincheck" ELSE "poll"]
    /\ UNCHANGED <<qargs, qret, posts, periodvars>>

\* lines 700 and 740: os.path.exists(lockfile) before a return None inside
\* the try block
QRmCheck(p) ==
    /\ qpc[p] = "rmcheck"
    /\ qpc' = [qpc EXCEPT ![p] =
                 IF fs.lock[cachekey(qargs[p])] # None THEN "rm"
                 ELSE "fincheck"]
    /\ UNCHANGED <<qargs, qloc, qret, fs, posts, periodvars>>

\* lines 701-702 and 741-742: os.remove(lockfile), then return None; when
\* the file is gone the FileNotFoundError is caught at line 751, which
\* returns None as well
QRm(p) ==
    /\ qpc[p] = "rm"
    /\ fs' = [fs EXCEPT !.lock[cachekey(qargs[p])] = None]
    /\ qpc' = [qpc EXCEPT ![p] = "fincheck"]
    /\ UNCHANGED <<qargs, qloc, qret, posts, periodvars>>

\* a finally clause that leaves the lock file where it is
QFinCheck_keep(p) ==
    /\ qpc[p] = "fincheck"
    /\ qpc' = [qpc EXCEPT ![p] = "done"]
    /\ qret' = [qret EXCEPT ![p] = Pending(p)]
    /\ UNCHANGED <<qargs, qloc, fs, posts, periodvars>>

\* line 759, the finally clause: os.path.exists(lockfile); without a lock
\* file the call returns what is pending
QFinCheck(p) ==
    /\ qpc[p] = "fincheck"
    /\ IF fs.lock[cachekey(qargs[p])] # None
       THEN /\ qpc' = [qpc EXCEPT ![p] = "finrm"]
            /\ qret' = qret
       ELSE /\ qpc' = [qpc EXCEPT ![p] = "done"]
            /\ qret' = [qret EXCEPT ![p] = Pending(p)]
    /\ UNCHANGED <<qargs, qloc, fs, posts, periodvars>>

\* line 760: os.remove(lockfile) in the finally clause; when the file is
\* gone the FileNotFoundError leaves the function
QFinRm(p) ==
    /\ qpc[p] = "finrm"
    /\ fs' = [fs EXCEPT !.lock[cachekey(qargs[p])] = None]
    /\ qret' = [qret EXCEPT ![p] =
                  IF fs.lock[cachekey(qargs[p])] = None
                  THEN Raised("FileNotFoundError")
                  ELSE Pending(p)]
    /\ qpc' = [qpc EXCEPT ![p] = "done"]
    /\ UNCHANGED <<qargs, qloc, posts, periodvars>>

----------------------------------------------------------------------------
(* Instances of query_galcoords side by side, and one instance alone *)

\* the cache directory before the calls: for each key, no result file or
\* the complete one of a query without extraparams; no lock file
InitialDirs ==
    [cache : {[k \in CacheKeys |-> IF k \in K
                                   THEN CacheFile([inp |-> k,
                                                   extraparams |-> None],
                                                  TRUE)
                                   ELSE None] : K \in SUBSET CacheKeys},
     lock  : {[k \in CacheKeys |-> None]}]

InitQuery ==
    /\ pk_args = NoArgs /\ pk_ret = NotCalled
    /\ ac_args = NoArgs /\ ac_ret = NotCalled
    /\ PipeIdle
    /\ qpc = [p \in Procs |-> "idle"]
    /\ qargs = [p \in Procs |-> NoArgs]
    /\ qloc = [p \in Procs |-> FreshLocals]
    /\ qret = [p \in Procs |-> NotCalled]
    /\ fs \in InitialDirs
    /\ posts = [p \in Procs |-> 0]

RaceInputs ==
    [inp         : CacheKeys,
     extraparams : ExtraParams,
     forcefetch  : BOOLEAN,
     refresh     : {1},
     maxtimeout  : 0..RaceMaxTimeout]

PollInputs ==
    [inp         : CacheKeys,
     extraparams : ExtraParams,
     forcefetch  : BOOLEAN,
     refresh     : 1..MaxRefresh,
     maxtimeout  : 0..MaxTimeout]

QCallRace(p) == qpc[p] = "idle" /\ \E a \in RaceInputs : QCall(p, a)

QCallAlone == qpc[1] = "idle" /\ \E a \in PollInputs : QCall(1, a)

NextQuery ==
    \E p \in Procs :
        \/ QCallRace(p)
        \/ QCheckCache(p)
        \/ QCheckLock(p)
        \/ QReadLock(p)
        \/ QWriteLock(p)
        \/ QPost(p)
        \/ QPoll(p)
        \/ QRmCheck(p)
        \/ QRm(p)
        \/ QFinCheck(p)
        \/ QFinRm(p)

SpecQuery == InitQuery /\ [][NextQuery]_vars

\* one instance alone, every request of which comes to an end
NextPoll ==
    \/ QCallAlone
    \/ QCheckCache(1)
    \/ QCheckLock(1)
    \/ QWriteLock(1)
    \/ QPost(1)
    \/ QPoll(1)
    \/ QRmCheck(1)
    \/ QRm(1)
    \/ QFinCheck(1)
    \/ QFinRm(1)

SpecPoll == InitQuery /\ [][NextPoll]_vars /\ WF_vars(NextPoll)

----------------------------------------------------------------------------
(* Claims about the polling loop, checked under SpecPoll *)

\* the largest number of download attempts the claim allows instance p
PollBound(p) == (qargs[p].maxtimeout \div qargs[p].refresh) + 1

\* instance p has been through the loop and has returned
PolledAndDone(p) == qpc[p] = "done" /\ qloc[p].attempts >= 1

\* the loop of instance p waits refresh seconds before each attempt, makes
\* no more than the allowed number of attempts, and is left only with the
\* result file downloaded or with None after the time waited has exceeded
\* maxtimeout
PollSafe(p) ==
    qargs[p] # NoArgs =>
        /\ qloc[p].timeelapsed = qloc[p].attempts * qargs[p].refresh
        /\ qloc[p].attempts <= PollBound(p)
        /\ PolledAndDone(p) =>
              \/ /\ qret[p] = resdict(qargs[p], "new download")
                 /\ fs.cache[cachekey(qargs[p])] = CacheFile(qargs[p], TRUE)
              \/ /\ qret[p] = ReturnedNone
                 /\ qloc[p].timeelapsed > qargs[p].maxtimeout

----------------------------------------------------------------------------
(* Claims about the lock file, checked under SpecQuery *)

\* instances p and q are two calls with the same cache key
SameKey(p, q) ==
    /\ p # q
    /\ qargs[p] # NoArgs /\ qargs[q] # NoArgs
    /\ cachekey(qargs[p]) = cachekey(qargs[q])

\* instance p has written the lock file and is submitting the form or
\* waiting for the result: it has not come to any removal of the lock file
Holding(p) == qpc[p] \in {"post", "poll"}

\* C19 (as claimed): for one cache key at most one instance at a time is
\* past the creation of the lock file and before its removal, under every
\* interleaving of two instances with the same parameters; the later one
\* returns None and submits nothing.
C19_OneInstancePerKey ==
    \A p, q \in Procs :
        (SameKey(p, q) /\ Holding(p)) =>
            /\ ~Holding(q)
            /\ qpc[q] \notin {"idle", "done"} =>
                  \/ posts[q] = 0 /\ qpc[q] \in {"cache", "lock", "readlock"}
                  \/ qpc[q] \in {"rmcheck", "rm", "fincheck", "finrm"}

\* two instances with the same key, neither forcing a fetch, have both
\* written the lock file and submitted the form, and both are polling
C19_Witness ==
    /\ SameKey(1, 2)
    /\ ~qargs[1].forcefetch /\ ~qargs[2].forcefetch
    /\ qloc[1].created /\ qloc[2].created
    /\ qpc[1] = "poll" /\ qpc[2] = "poll"
    /\ posts[1] = 1 /\ posts[2] = 1
    /\ fs.lock[cachekey(qargs[1])] # None

\* instance p returns or raises in this step
Returns(p) == qpc[p] # "done" /\ qpc'[p] = "done"

\* when a call that wrote the lock file returns or raises, there is no lock
\* file for its key
CreatedLockRemoved ==
    [][\A p \in Procs :
         (Returns(p) /\ qloc[p].created) =>
             fs'.lock[cachekey(qargs[p])] = None]_vars

\* a call that found the lock file present returns None and leaves the
\* directory as it is
FoundLockReturnsNone ==
    [][\A p \in Procs :
         (Returns(p) /\ qpc[p] = "readlock") =>
             /\ qret'[p] = ReturnedNone
             /\ fs' = fs
             /\ fs.lock[cachekey(qargs[p])] # None]_vars

\* C20 (as claimed): a call that has created the lock file for its key
\* leaves no lock file behind when it returns, on every return path; and a
\* call that finds the lock file present returns None and leaves it in
\* place.
C20_LockLifecycle == CreatedLockRemoved /\ FoundLockReturnsNone

\* an instance found the lock file of another present, the other removed
\* it, and the instance raised on reading it instead of returning None
C20_Witness ==
    \E p, q \in Procs :
        /\ SameKey(p, q)
        /\ qpc[p] = "done"
        /\ ~qloc[p].created
        /\ posts[p] = 0
        /\ qret[p] = Raised("FileNotFoundError")
        /\ qloc[q].created
        /\ fs.lock[cachekey(qargs[p])] = None

----------------------------------------------------------------------------
(* Claims about the reuse of cached result files, checked under SpecQuery *)

\* instance p returns in this step the result file found in the cache
AnswersFromCache(p) ==
    /\ Returns(p)
    /\ qret'[p].status = "ok"
    /\ qret'[p].provenance = "cache"

\* C21 (as claimed): a call answers from the cache only when the result
\* file it finds is the answer to the very form the call would submit; two
\* calls with forcefetch false whose forms differ in any field, those set
\* through extraparams included, have different cache files; and a call
\* with forcefetch true never answers from the cache.
C21_CacheReuseMatchesForm ==
    [][/\ \A p \in Procs :
            AnswersFromCache(p) =>
                /\ ~qargs[p].forcefetch
                /\ fs.cache[cachekey(qargs[p])] # None
                /\ fs.cache[cachekey(qargs[p])][1].form =
                      trilegal_params(qargs[p])
       /\ \A p, q \in Procs :
            (/\ qargs'[p] # NoArgs /\ qargs'[q] # NoArgs
             /\ ~qargs'[p].forcefetch /\ ~qargs'[q].forcefetch
             /\ trilegal_params(qargs'[p]) # trilegal_params(qargs'[q])) =>
                cachekey(qargs'[p]) # cachekey(qargs'[q])
      ]_vars

\* a call with extraparams and forcefetch false has returned, as its own
\* result, the complete result file of a query with another imf_file
C21_Witness ==
    \E p \in Procs :
        /\ qpc[p] = "done"
        /\ ~qargs[p].forcefetch
        /\ qargs[p].extraparams # None
        /\ qret[p] = resdict(qargs[p], "cache")
        /\ posts[p] = 0
        /\ fs.cache[cachekey(qargs[p])] # None
        /\ fs.cache[cachekey(qargs[p])][1].complete
        /\ fs.cache[cachekey(qargs[p])][1].form.imf_file #
           trilegal_params(qargs[p]).imf_file

====
